---- MODULE Spec2Model ----
(***************************************************************************)
(* task_timer: a TaskList (id -> Task mapping plus a derived timeline) and *)
(* the Agenda singleton that wraps one TaskList and keeps one timer armed  *)
(* for the first timeline group.                                           *)
(*                                                                         *)
(* Sources: src/src/Agenda.js (class Agenda, lines 1-209, and the current  *)
(* class Task, lines 358-575) and src/unnamed/part_004 (the current,       *)
(* documented class TaskList, whose organizeTasks clamps the delay at 0).  *)
(*                                                                         *)
(* Time is the millisecond clock (new Date()), an integer.  A Task is the  *)
(* record of its private fields; an invocation of its payload is recorded  *)
(* with the id of the stored copy and the clock reading of the call.       *)
(***************************************************************************)
EXTENDS Integers, Sequences, FiniteSets, TLC

\* ------------------------------------------------------------- bounds
MaxTime == 2        \* the clock runs over 0..MaxTime
MaxBatch == 2       \* arguments of one addTasks / removeTask call
NumIds == 2         \* size of the id space randomBytes(5) draws from

\* ------------------------------------------------- program constants
NullTimer == 0      \* #activeTimerId = null
NullTime == -1      \* #nextExecutionTime = null
NullId == 0         \* member of NullIds, never a task id
MaxObjs == 3        \* Task objects allocated
MaxLists == 2       \* TaskList objects: the Agenda's and its copies
NullAgenda == 0     \* Agenda.#agenda is undefined
MaxAgendas == 2     \* Agenda objects constructed

Ids == 1..NumIds
Times == 0..MaxTime
NullIds == <<NullId>>   \* #nextTasksIds = null (not an array)

VARIABLES
    now,                \* new Date(): the wall clock
    tasks,              \* TaskList.#tasks, in property (insertion) order
    timeline,           \* TaskList.#timeline
    nextTasksIds,       \* Agenda.#nextTasksIds
    activeTimerId,      \* Agenda.#activeTimerId
    nextExecutionTime,  \* Agenda.#nextExecutionTime
    timers,             \* the host's live timeouts: armed, not fired, not cleared
    removed,            \* ids a removeTask(id) call named while they were stored,
                        \* and that were not given out since
    fired,              \* ids a timer fire invoked and that were not given out since
    lastOp,             \* the last Agenda operation: arguments, result and
                        \* the payload invocations it made, in order
    objs,               \* the Task objects allocated, by reference
    dicts,              \* the #tasks objects allocated: key -> Task reference
    lists,              \* the TaskList objects: the Agenda's #taskList first
    held,               \* the Task references the caller holds, and how it
                        \* got each
    lastCall,           \* the last call made on the objects
    agenda,             \* the static Agenda.#agenda: the Agenda object it refers to
    made,               \* the number of Agenda objects constructed
    got,                \* the references getAgenda() returned
    dates,              \* the Date objects allocated, by reference: their time values
    heldDates           \* the Date references the caller holds, and how it
                        \* got each

agendaVars == <<now, tasks, timeline, nextTasksIds, activeTimerId,
                nextExecutionTime, timers, removed, fired, lastOp>>

staticVars == <<agenda, made, got>>

dateVars == <<dates, heldDates>>

objVars == <<objs, dicts, lists, held, lastCall, staticVars, dateVars>>

vars == <<agendaVars, objVars>>

\* ------------------------------------------------------------ helpers
Max(a, b) == IF a >= b THEN a ELSE b

SetMin(S) == CHOOSE m \in S : \A x \in S : m <= x

Range(s) == {s[i] : i \in DOMAIN s}

\* F applied to the value of v: v is evaluated once, before F is applied.
Then(v, F(_)) == CHOOSE r \in {F(x) : x \in {v}} : TRUE

\* Sequences over S of length 0..n.
SeqsUpTo(S, n) == UNION {[1..k -> S] : k \in 0..n}

\* ---------------------------------------------------------------- Task
\* Task.createTaskWithExecutionDelay / createTaskWithExecutionTime: the
\* creation time is the clock at construction; the execution time is either
\* creationTime + delay (any integer delay) or the given Date.
NewTask(c, e) == [isTask |-> TRUE, id |-> NullId,
                  creationTime |-> c, executionTime |-> e]

\* An argument that is not an instance of Task.
NotATask == [isTask |-> FALSE, id |-> NullId,
             creationTime |-> 0, executionTime |-> 0]

\* Task.getTimeTillExecution at clock reading clock.
getTimeTillExecution(task, clock) == Max(task.executionTime - clock, 0)

\* ------------------------------------------------------------ TaskList
Keys(ts) == {ts[i].id : i \in DOMAIN ts}

\* this.#tasks[key]: the index of the entry under key, 0 when undefined.
IndexOf(ts, key) ==
    IF \E i \in DOMAIN ts : ts[i].id = key
    THEN CHOOSE i \in DOMAIN ts : ts[i].id = key
    ELSE 0

\* The property key JavaScript derives from a value used as a key: a string
\* is itself, an array is its elements joined by ",".  A key is written here
\* as the tuple of the ids it joins, so the key of the id x is <<x>>, and a
\* key names a stored entry only when it is a one-element tuple of its id
\* (ids are 10 hex digits: never empty, never holding a comma).
KeyIndex(ts, key) == IF Len(key) = 1 THEN IndexOf(ts, key[1]) ELSE 0

taskCount(ts) == Len(ts)

\* #generateUniqueID without the check against the existing keys.
generateUniqueID_NoCheck(ts) == Ids

\* TaskList.#generateUniqueID: the values the loop can return.
generateUniqueID(ts) == Ids \ Keys(ts)

\* this.#tasks[newId] = newEleTask: assignment to a property.
PutTask(ts, newId, task) ==
    IF IndexOf(ts, newId) # 0
    THEN [ts EXCEPT ![IndexOf(ts, newId)] = task]
    ELSE Append(ts, task)

\* #addTask_prv stamping the copy with the moment of the addition.
addTask_prv_Restamp(ts, newTask, newId) ==
    PutTask(ts, newId, [newTask EXCEPT !.id = newId,
                                       !.executionTime = now + (@ - newTask.creationTime),
                                       !.creationTime = now])

\* TaskList.#addTask_prv with the id the generator returned.
addTask_prv(ts, newTask, newId) ==
    PutTask(ts, newId, [newTask EXCEPT !.id = newId])

\* The delay without the clamp at 0.
GroupDelay_Raw(task) == task.executionTime - task.creationTime

\* The delay organizeTasks files a task under.
GroupDelay(task) == Max(task.executionTime - task.creationTime, 0)

\* The extraction loop taking every task up to the smallest remaining delay.
RECURSIVE SmallestFirst_UpTo(_, _)
SmallestFirst_UpTo(ts, delays) ==
    IF delays = {} THEN <<>>
    ELSE LET smallestDelay == SetMin(delays)
             members == SelectSeq(ts, LAMBDA t : GroupDelay(t) <= smallestDelay)
             ids == [i \in DOMAIN members |-> members[i].id]
         IN  (IF Len(ids) > 0 THEN <<ids>> ELSE <<>>)
             \o SmallestFirst_UpTo(ts, delays \ {smallestDelay})

\* The loop of organizeTasks: the group of the smallest delay is taken out of
\* the delays object and pushed, until the object is empty.  The key of a
\* group is its delay as a string; Number(key) gives the delay back exactly.
RECURSIVE SmallestFirst(_, _)
SmallestFirst(ts, delays) ==
    IF delays = {} THEN <<>>
    ELSE LET smallestDelay == SetMin(delays)
             members == SelectSeq(ts, LAMBDA t : GroupDelay(t) = smallestDelay)
             ids == [i \in DOMAIN members |-> members[i].id]
         IN  (IF Len(ids) > 0 THEN <<ids>> ELSE <<>>)
             \o SmallestFirst(ts, delays \ {smallestDelay})

\* TaskList.organizeTasks: the new timeline of the mapping ts.
organizeTasks(ts) == SmallestFirst(ts, {GroupDelay(ts[i]) : i \in DOMAIN ts})

\* The loop of addTasks without the instanceof Task test.
RECURSIVE addTasksLoop_NoInstanceCheck(_, _, _)
addTasksLoop_NoInstanceCheck(ts, newTasks, i) ==
    IF i > Len(newTasks)
    THEN {[tasks |-> ts, changed |-> FALSE, ids |-> <<>>]}
    ELSE UNION {
           {[r EXCEPT !.changed = TRUE, !.ids = <<newId>> \o @] :
              r \in addTasksLoop_NoInstanceCheck(addTask_prv(ts, newTasks[i], newId),
                                                 newTasks, i + 1)} :
           newId \in generateUniqueID(ts)}

\* The loop of TaskList.addTasks over newTasks[i..]: every outcome it can
\* have, one for each value #generateUniqueID can return for each Task.
RECURSIVE addTasksLoop(_, _, _)
addTasksLoop(ts, newTasks, i) ==
    IF i > Len(newTasks)
    THEN {[tasks |-> ts, changed |-> FALSE, ids |-> <<>>]}
    ELSE IF ~newTasks[i].isTask
    THEN addTasksLoop(ts, newTasks, i + 1)
    ELSE UNION {
           {[r EXCEPT !.changed = TRUE, !.ids = <<newId>> \o @] :
              r \in addTasksLoop(addTask_prv(ts, newTasks[i], newId),
                                 newTasks, i + 1)} :
           newId \in generateUniqueID(ts)}

\* TaskList.addTasks(...newTasks): the outcomes [tasks, timeline, changed, ids],
\* ids being the ids given to the stored copies.
TaskList_addTasks(ts, tl, newTasks) ==
    {[tasks |-> r.tasks,
      timeline |-> IF r.changed THEN organizeTasks(r.tasks) ELSE tl,
      changed |-> r.changed, ids |-> r.ids] :
        r \in addTasksLoop(ts, newTasks, 1)}

\* The loop of TaskList.removeTasks over the argument list keys[i..].
RECURSIVE removeTasksLoop(_, _, _)
removeTasksLoop(ts, keys, i) ==
    IF i > Len(keys) THEN ts
    ELSE IF KeyIndex(ts, keys[i]) # 0
    THEN removeTasksLoop(SelectSeq(ts, LAMBDA t : t.id # keys[i][1]), keys, i + 1)
    ELSE removeTasksLoop(ts, keys, i + 1)

\* TaskList.removeTasks(...keys): [tasks, timeline, changed].
TaskList_removeTasks(ts, tl, keys) ==
    Then(removeTasksLoop(ts, keys, 1), LAMBDA after :
        LET changed == Len(after) # Len(ts)
        IN  [tasks |-> after,
             timeline |-> IF changed THEN organizeTasks(after) ELSE tl,
             changed |-> changed])

\* TaskList.getNextTaskIds.
getNextTaskIds(tl) == IF Len(tl) > 0 /\ Len(tl[1]) > 0 THEN tl[1] ELSE <<>>

\* TaskList.getTasks_id(...taskIds): copies of the stored tasks, in the order
\* of the given ids; ids that are not stored are left out.
getTasks_id(ts, taskIds) ==
    LET found == SelectSeq(taskIds, LAMBDA id : IndexOf(ts, id) # 0)
    IN  [i \in DOMAIN found |-> ts[IndexOf(ts, found[i])]]

\* What a call that can throw gives back: the error it raised ("" when it
\* returned) and the value it returned.
Returned(out) == [raised |-> "", out |-> out]
Raised(error) == [raised |-> error, out |-> <<>>]

\* The values a caller can pass as executionTime: a Date of a moment, an
\* Invalid Date (a Date object whose time value is NaN), a value that is not
\* a Date.
TimeArgs ==
    {[isDate |-> TRUE, valid |-> TRUE, time |-> e] : e \in Times}
    \cup {[isDate |-> TRUE, valid |-> FALSE, time |-> 0],
          [isDate |-> FALSE, valid |-> FALSE, time |-> 0]}

\* The values a caller can pass as executionDelay: an integer (negative
\* ones too), a value Number.isInteger rejects.
DelayArgs ==
    {[isInteger |-> TRUE, value |-> d] : d \in (0 - 1)..MaxTime}
    \cup {[isInteger |-> FALSE, value |-> 0]}

\* Task.createTaskWithExecutionTime(executionTime, executionFunction) at
\* clock reading clock; callable: executionFunction instanceof Function.
\* The Date given is stored as it is.
createTaskWithExecutionTime(executionTime, callable, clock) ==
    IF ~executionTime.isDate THEN Raised("TypeError")
    ELSE IF ~callable THEN Raised("TypeError")
    ELSE Returned(<<[creationTime |-> clock, executionTime |-> executionTime]>>)

\* Task.createTaskWithExecutionDelay(executionDelay, executionFunction) at
\* clock reading clock.
createTaskWithExecutionDelay(executionDelay, callable, clock) ==
    IF ~executionDelay.isInteger THEN Raised("TypeError")
    ELSE IF ~callable THEN Raised("TypeError")
    ELSE Returned(<<NewTask(clock, clock + executionDelay.value)>>)

\* TaskList.getTasks_timelineIndex(index) for an integer index (the first
\* group is index 0): the range test lets index = timelineLength() through,
\* and this.#timeline[index] is then undefined, which gives an empty array.
getTasks_timelineIndex(ts, tl, index) ==
    IF index < 0 \/ index > Len(tl)
    THEN Raised("RangeError")
    ELSE LET ids == IF index < Len(tl) THEN tl[index + 1] ELSE <<>>
         IN  IF \A i \in DOMAIN ids : IndexOf(ts, ids[i]) # 0
             THEN Returned([i \in DOMAIN ids |-> ts[IndexOf(ts, ids[i])]])
             ELSE Raised("TypeError")

\* TaskList.getNextTasks.
getNextTasks(ts, tl) == getTasks_timelineIndex(ts, tl, 0)

\* startTime instanceof Data: the identifier Data is bound nowhere (the
\* module imports randomBytes and Task, and the host has no global Data), so
\* evaluating the test throws a ReferenceError whatever startTime is.
instanceofData(value) == Raised("ReferenceError")

\* TaskList.findTasksWithinExecutionTimefram(startTime, endTime): the tasks
\* of the TaskList it returns.
findTasksWithinExecutionTimefram(ts, startTime, endTime) ==
    IF instanceofData(startTime).raised # "" THEN instanceofData(startTime)
    ELSE IF instanceofData(endTime).raised # "" THEN instanceofData(endTime)
    ELSE Returned(SelectSeq(ts, LAMBDA element :
                      element.executionTime >= startTime
                      /\ element.executionTime <= endTime))

\* TaskList.findTasksWithinCreationTimefram(startTime, endTime).
findTasksWithinCreationTimefram(ts, startTime, endTime) ==
    IF instanceofData(startTime).raised # "" THEN instanceofData(startTime)
    ELSE IF instanceofData(endTime).raised # "" THEN instanceofData(endTime)
    ELSE Returned(SelectSeq(ts, LAMBDA element :
                      element.creationTime >= startTime
                      /\ element.creationTime <= endTime))

\* -------------------------------------------------------------- Agenda
\* The Agenda object and what its operations act on, as one record; ran
\* collects the payload invocations of the operation in progress, newIds
\* the ids it gave to new entries, armed the delays it passed to setTimeout
\* and cancelled the number of clearTimeout calls it made.
Self == [tasks |-> tasks, timeline |-> timeline,
         nextTasksIds |-> nextTasksIds, activeTimerId |-> activeTimerId,
         nextExecutionTime |-> nextExecutionTime, timers |-> timers,
         ran |-> <<>>, newIds |-> <<>>, armed |-> <<>>, cancelled |-> 0]

\* A handle no live timeout and no held reference has: setTimeout returns a
\* new Timeout object each time.
FreshTimer(a) ==
    SetMin({n \in 1..(Cardinality(a.timers) + 2) :
               n # a.activeTimerId /\ \A t \in a.timers : t.tid # n})

\* Task.execute, called at clock reading clock: the invocation is recorded.
execute(a, task, clock, via) ==
    [a EXCEPT !.ran = Append(@, [id |-> task.id, at |-> clock,
                                 executionTime |-> task.executionTime,
                                 via |-> via])]

\* #getTrackedTasks asking for the first tracked id only.
getTrackedTasks_FirstOnly(a) ==
    IF a.nextTasksIds # NullIds /\ Len(a.nextTasksIds) > 0
    THEN getTasks_id(a.tasks, <<a.nextTasksIds[1]>>)
    ELSE <<>>

\* Agenda.#getTrackedTasks.
getTrackedTasks(a) ==
    IF a.nextTasksIds # NullIds /\ Len(a.nextTasksIds) > 0
    THEN getTasks_id(a.tasks, a.nextTasksIds)
    ELSE <<>>

\* #clearTaskTracker without the clearTimeout call.
clearTaskTracker_KeepsTimer(a) ==
    [a EXCEPT !.nextTasksIds = NullIds,
              !.nextExecutionTime = NullTime,
              !.activeTimerId = NullTimer]

\* #clearTaskTracker leaving #nextExecutionTime as it is.
clearTaskTracker_KeepsTime(a) ==
    [a EXCEPT !.nextTasksIds = NullIds,
              !.timers = IF a.activeTimerId # NullTimer
                         THEN {t \in @ : t.tid # a.activeTimerId}
                         ELSE @,
              !.cancelled = IF a.activeTimerId # NullTimer THEN @ + 1 ELSE @,
              !.activeTimerId = NullTimer]

\* Agenda.#clearTaskTracker.
clearTaskTracker(a) ==
    [a EXCEPT !.nextTasksIds = NullIds,
              !.nextExecutionTime = NullTime,
              !.timers = IF a.activeTimerId # NullTimer
                         THEN {t \in @ : t.tid # a.activeTimerId}
                         ELSE @,
              !.cancelled = IF a.activeTimerId # NullTimer THEN @ + 1 ELSE @,
              !.activeTimerId = NullTimer]

\* Agenda.#setTaskTracker at clock reading clock.
setTaskTracker(a, clock) ==
    LET newNextTaskIds == getNextTaskIds(a.timeline)
    IN  IF Len(newNextTaskIds) > 0
        THEN LET sampleTask == getTasks_id(a.tasks, <<newNextTaskIds[1]>>)[1]
                 delay == getTimeTillExecution(sampleTask, clock)
                 handle == FreshTimer(a)
             IN  [a EXCEPT !.nextExecutionTime = sampleTask.executionTime,
                           !.nextTasksIds = newNextTaskIds,
                           !.activeTimerId = handle,
                           !.timers = @ \cup {[tid |-> handle, due |-> clock + delay]},
                           !.armed = Append(@, delay)]
        ELSE a

\* #checkTaskTracker comparing the lengths of the two id lists only.
checkTaskTracker_LengthOnly(a, clock) ==
    LET ids_them == getNextTaskIds(a.timeline)
        ids_mine == IF a.nextTasksIds # NullIds THEN a.nextTasksIds ELSE <<>>
    IN  IF Len(ids_mine) # Len(ids_them)
        THEN setTaskTracker(clearTaskTracker(a), clock)
        ELSE a

\* #checkTaskTracker without the comparison: it always clears and sets.
checkTaskTracker_Always(a, clock) == setTaskTracker(clearTaskTracker(a), clock)

\* Agenda.#checkTaskTracker.
checkTaskTracker(a, clock) ==
    LET ids_them == getNextTaskIds(a.timeline)
        ids_mine == IF a.nextTasksIds # NullIds THEN a.nextTasksIds ELSE <<>>
        changed == IF Len(ids_mine) = Len(ids_them)
                   THEN \E i \in DOMAIN ids_mine : ids_mine[i] \notin Range(ids_them)
                   ELSE TRUE
    IN  IF changed THEN setTaskTracker(clearTaskTracker(a), clock) ELSE a

\* The loop of Agenda.#executeTrackedTasks over nextTasks[i..].
RECURSIVE executeLoop(_, _, _, _)
executeLoop(a, nextTasks, i, clock) ==
    IF i > Len(nextTasks) THEN a
    ELSE executeLoop(execute(a, nextTasks[i], clock, "timer"), nextTasks, i + 1, clock)

\* #executeTrackedTasks without the removeTasks call.
executeTrackedTasks_NoRemove(a, clock) ==
    Then(getTrackedTasks(a), LAMBDA nextTasks :
    Then(executeLoop(a, nextTasks, 1, clock), LAMBDA ran :
    Then(clearTaskTracker(ran), LAMBDA cleared : setTaskTracker(cleared, clock))))

\* #executeTrackedTasks without the closing #setTaskTracker call.
executeTrackedTasks_NoRearm(a, clock) ==
    Then(getTrackedTasks(a), LAMBDA nextTasks :
    Then([i \in DOMAIN nextTasks |-> <<nextTasks[i].id>>], LAMBDA executedTasksIds :
    Then(executeLoop(a, nextTasks, 1, clock), LAMBDA ran :
    Then(TaskList_removeTasks(ran.tasks, ran.timeline, executedTasksIds), LAMBDA r :
        clearTaskTracker([ran EXCEPT !.tasks = r.tasks, !.timeline = r.timeline])))))

\* #executeTrackedTasks when the payload of the k-th tracked task throws:
\* the tasks up to the k-th are invoked and the exception leaves the loop
\* and the callback (nothing catches it), so removeTasks, #clearTaskTracker
\* and #setTaskTracker are not reached.
executeTrackedTasks_Throws(a, clock, k) ==
    Then(getTrackedTasks(a), LAMBDA nextTasks :
        executeLoop(a, SubSeq(nextTasks, 1, k), 1, clock))

\* Agenda.#executeTrackedTasks, the timer's callback.
executeTrackedTasks(a, clock) ==
    Then(getTrackedTasks(a), LAMBDA nextTasks :
    Then([i \in DOMAIN nextTasks |-> <<nextTasks[i].id>>], LAMBDA executedTasksIds :
    Then(executeLoop(a, nextTasks, 1, clock), LAMBDA ran :
    Then(TaskList_removeTasks(ran.tasks, ran.timeline, executedTasksIds), LAMBDA r :
    Then(clearTaskTracker([ran EXCEPT !.tasks = r.tasks, !.timeline = r.timeline]),
         LAMBDA cleared : setTaskTracker(cleared, clock))))))

\* Agenda.addTasks(...newTasks).
Agenda_addTasks(a, newTasks, clock) ==
    {LET b == [a EXCEPT !.tasks = r.tasks, !.timeline = r.timeline,
                        !.newIds = r.ids]
     IN  IF r.changed THEN checkTaskTracker(b, clock) ELSE b :
        r \in TaskList_addTasks(a.tasks, a.timeline, newTasks)}

\* removeTask that re-checks the tracker without deleting anything.
Agenda_removeTask_NoDelete(a, taskIds, clock) == checkTaskTracker(a, clock)

\* removeTask that clears and sets the tracker whether or not it deleted.
Agenda_removeTask_Rearms(a, taskIds, clock) ==
    LET r == TaskList_removeTasks(a.tasks, a.timeline, <<taskIds>>)
        b == [a EXCEPT !.tasks = r.tasks, !.timeline = r.timeline]
    IN  setTaskTracker(clearTaskTracker(b), clock)

\* Agenda.removeTask(...taskIds): the rest array taskIds is handed to
\* TaskList.removeTasks as ONE argument (it is not spread).
Agenda_removeTask(a, taskIds, clock) ==
    LET r == TaskList_removeTasks(a.tasks, a.timeline, <<taskIds>>)
        b == [a EXCEPT !.tasks = r.tasks, !.timeline = r.timeline]
    IN  IF r.changed THEN checkTaskTracker(b, clock) ELSE b

\* executeTaskNow that removes the task whatever removeAfterExecution is.
Agenda_executeTaskNow_Removes(a, taskId, removeAfterExecution, clock) ==
    LET found == getTasks_id(a.tasks, <<taskId>>)
    IN  IF Len(found) > 0
        THEN Agenda_removeTask(execute(a, found[1], clock, "now"), <<taskId>>, clock)
        ELSE a

\* executeTaskNow that keeps the task whatever removeAfterExecution is.
Agenda_executeTaskNow_Keeps(a, taskId, removeAfterExecution, clock) ==
    LET found == getTasks_id(a.tasks, <<taskId>>)
    IN  IF Len(found) > 0 THEN execute(a, found[1], clock, "now") ELSE a

\* executeTaskNow that rebuilds the tracker when it finds no task.
Agenda_executeTaskNow_Rechecks(a, taskId, removeAfterExecution, clock) ==
    LET found == getTasks_id(a.tasks, <<taskId>>)
    IN  IF Len(found) > 0
        THEN LET ran == execute(a, found[1], clock, "now")
             IN  IF removeAfterExecution
                 THEN Agenda_removeTask(ran, <<taskId>>, clock)
                 ELSE ran
        ELSE setTaskTracker(clearTaskTracker(a), clock)

\* Agenda.executeTaskNow(taskId, removeAfterExecution).
Agenda_executeTaskNow(a, taskId, removeAfterExecution, clock) ==
    LET found == getTasks_id(a.tasks, <<taskId>>)
    IN  IF Len(found) > 0
        THEN LET ran == execute(a, found[1], clock, "now")
             IN  IF removeAfterExecution
                 THEN Agenda_removeTask(ran, <<taskId>>, clock)
                 ELSE ran
        ELSE a

\* new Date(value): the Date of the same instant for a Date, and the Date of
\* time 0 (the epoch) for null, which is converted to the number 0.
NewDate(value) == IF value = NullTime THEN 0 ELSE value

\* Agenda.getNextExectutionTime(): new Date(this.#nextExecutionTime).
getNextExectutionTime(a) == NewDate(a.nextExecutionTime)

\* The rest of #executeTrackedTasks without the #clearTaskTracker call.
executeTrackedTasks_Rest_NoClear(called, nextTasks, k, clock) ==
    Then(executeLoop(called, SubSeq(nextTasks, k + 1, Len(nextTasks)), 1, clock),
         LAMBDA ran :
    Then(TaskList_removeTasks(ran.tasks, ran.timeline,
                              [i \in DOMAIN nextTasks |-> <<nextTasks[i].id>>]),
         LAMBDA r :
        setTaskTracker([ran EXCEPT !.tasks = r.tasks, !.timeline = r.timeline], clock)))

\* #executeTrackedTasks from the point where the payload of the k-th of
\* nextTasks has made its call and left the Agenda as called: the loop goes
\* on over the rest of nextTasks (the array fetched before the loop), then
\* removeTasks with the ids of all of nextTasks, #clearTaskTracker and
\* #setTaskTracker.
executeTrackedTasks_Rest(called, nextTasks, k, clock) ==
    Then(executeLoop(called, SubSeq(nextTasks, k + 1, Len(nextTasks)), 1, clock),
         LAMBDA ran :
    Then(TaskList_removeTasks(ran.tasks, ran.timeline,
                              [i \in DOMAIN nextTasks |-> <<nextTasks[i].id>>]),
         LAMBDA r :
    Then(clearTaskTracker([ran EXCEPT !.tasks = r.tasks, !.timeline = r.timeline]),
         LAMBDA cleared : setTaskTracker(cleared, clock))))

\* #executeTrackedTasks when the payload of the k-th tracked task calls
\* agenda.removeTask(...taskIds).
executeTrackedTasks_Removing(a, clock, k, taskIds) ==
    Then(getTrackedTasks(a), LAMBDA nextTasks :
    Then(executeLoop(a, SubSeq(nextTasks, 1, k), 1, clock), LAMBDA upToK :
        executeTrackedTasks_Rest(Agenda_removeTask(upToK, taskIds, clock),
                                 nextTasks, k, clock)))

\* #executeTrackedTasks when the payload of the k-th tracked task calls
\* agenda.addTasks(...newTasks): one outcome for each id the new entries
\* can get.
executeTrackedTasks_Adding(a, clock, k, newTasks) ==
    LET nextTasks == getTrackedTasks(a)
        upToK == executeLoop(a, SubSeq(nextTasks, 1, k), 1, clock)
    IN  {executeTrackedTasks_Rest(called, nextTasks, k, clock) :
            called \in Agenda_addTasks(upToK, newTasks, clock)}

\* Agenda.getTaskCount.
getTaskCount(a) == taskCount(a.tasks)

\* ------------------------------------------------------------- actions
\* The values a caller can pass to addTasks at clock reading clock: a Task
\* created at any moment up to now, due at any moment (before or after its
\* creation), or a value that is not a Task.
TaskArgs(clock) ==
    {NewTask(c, e) : c \in 0..clock, e \in Times} \cup {NotATask}

NumValid(newTasks) == Len(SelectSeq(newTasks, LAMBDA t : t.isTask))

RanIds(b) == {b.ran[i].id : i \in DOMAIN b.ran}

\* The Agenda after an operation.
Becomes(b) ==
    /\ tasks' = b.tasks
    /\ timeline' = b.timeline
    /\ nextTasksIds' = b.nextTasksIds
    /\ activeTimerId' = b.activeTimerId
    /\ nextExecutionTime' = b.nextExecutionTime
    /\ timers' = b.timers

\* What lastOp records of an operation that turned the Agenda into b: its
\* name, the number of arguments, the ids it concerned, a count n, a flag,
\* the task count before it, the count it returned (getTaskCount() at its
\* end), the payload invocations it made, the delays it passed to setTimeout
\* and the number of timers it cancelled.
Done(op, len, ids, n, flag, b) ==
    [op |-> op, len |-> len, ids |-> ids, n |-> n, flag |-> flag,
     before |-> taskCount(tasks), ret |-> getTaskCount(b), ran |-> b.ran,
     armed |-> b.armed, cancelled |-> b.cancelled]

\* The given ids that are stored, in the order given.
Stored(taskIds) == SelectSeq(taskIds, LAMBDA id : id \in Keys(tasks))

Init ==
    /\ now = 0
    /\ tasks = <<>>
    /\ timeline = <<>>
    /\ nextTasksIds = NullIds
    /\ activeTimerId = NullTimer
    /\ nextExecutionTime = NullTime
    /\ timers = {}
    /\ removed = {}
    /\ fired = {}
    /\ lastOp = [op |-> "new", len |-> 0, ids |-> <<>>, n |-> 0, flag |-> FALSE,
                 before |-> 0, ret |-> 0, ran |-> <<>>,
                 armed |-> <<>>, cancelled |-> 0]
    /\ objs = <<>>
    /\ dicts = <<<<>>>>
    /\ lists = <<[tasks |-> 1, timeline |-> <<>>]>>
    /\ held = {}
    /\ lastCall = [op |-> "new", list |-> 0, how |-> "", field |-> ""]
    /\ agenda = NullAgenda
    /\ made = 0
    /\ got = {}
    /\ dates = <<>>
    /\ heldDates = {}

\* agenda.addTasks(...newTasks); lastOp.ids are the ids of the new entries
\* and lastOp.n the number of Task arguments.
AddTasks ==
    \E newTasks \in SeqsUpTo(TaskArgs(now), MaxBatch) :
        \E b \in Agenda_addTasks(Self, newTasks, now) :
            /\ Becomes(b)
            /\ removed' = removed \ Range(b.newIds)
            /\ fired' = fired \ Range(b.newIds)
            /\ lastOp' = Done("addTasks", Len(newTasks), b.newIds,
                              NumValid(newTasks), Len(b.newIds) > 0, b)
            /\ UNCHANGED <<now, objVars>>

\* agenda.removeTask(...taskIds); lastOp.ids are the given ids that were
\* stored and lastOp.n the number of distinct ones.
RemoveTask ==
    \E taskIds \in SeqsUpTo(Ids, MaxBatch) :
        LET b == Agenda_removeTask(Self, taskIds, now)
        IN  /\ Becomes(b)
            /\ removed' = removed \cup
                              (IF Len(taskIds) = 1 THEN Range(Stored(taskIds)) ELSE {})
            /\ lastOp' = Done("removeTask", Len(taskIds), Stored(taskIds),
                              Cardinality(Range(taskIds) \cap Keys(tasks)),
                              b.tasks # tasks, b)
            /\ UNCHANGED <<now, fired, objVars>>

\* agenda.executeTaskNow(taskId, removeAfterExecution)
ExecuteTaskNow ==
    \E taskId \in Ids, removeAfterExecution \in BOOLEAN :
        LET b == Agenda_executeTaskNow(Self, taskId, removeAfterExecution, now)
        IN  /\ Becomes(b)
            /\ removed' = removed \cup
                              (IF removeAfterExecution THEN Range(Stored(<<taskId>>)) ELSE {})
            /\ lastOp' = Done("executeTaskNow", 1, Stored(<<taskId>>),
                              IF taskId \in Keys(tasks) THEN 1 ELSE 0,
                              removeAfterExecution, b)
            /\ UNCHANGED <<now, fired, objVars>>

\* The host runs the callback of a live timeout whose delay has elapsed;
\* lastOp.ids are the ids that were tracked when it fired.
TimerFire ==
    \E t \in timers :
        /\ now >= t.due
        /\ \E b \in {executeTrackedTasks([Self EXCEPT !.timers = @ \ {t}], now)} :
            /\ Becomes(b)
            /\ fired' = fired \cup RanIds(b)
            /\ lastOp' = Done("fire", 0,
                              IF nextTasksIds # NullIds THEN nextTasksIds ELSE <<>>,
                              Len(b.ran), TRUE, b)
            /\ UNCHANGED <<now, removed, objVars>>

\* The clock advances by one millisecond.
Tick ==
    /\ now < MaxTime
    /\ now' = now + 1
    /\ lastOp' = Done("tick", 0, <<>>, 0, FALSE, Self)
    /\ UNCHANGED <<tasks, timeline, nextTasksIds, activeTimerId, nextExecutionTime,
                   timers, removed, fired, objVars>>

Next == AddTasks \/ RemoveTask \/ ExecuteTaskNow \/ TimerFire \/ Tick

Spec == Init /\ [][Next]_vars

\* The timer is given its turn and the clock keeps running: the host runs a
\* due callback once the current operation has returned.
FairSpec == Init /\ [][Next]_vars /\ WF_vars(TimerFire) /\ WF_vars(Tick)

\* The callback of a due timeout runs and the payload of one of the tracked
\* tasks throws (the host survives the uncaught exception); lastOp.ids are
\* the ids that were tracked and lastOp.n the number of payloads invoked.
TimerFireThrows ==
    \E t \in timers :
        /\ now >= t.due
        /\ \E k \in 1..Len(getTrackedTasks(Self)) :
           \E b \in {executeTrackedTasks_Throws([Self EXCEPT !.timers = @ \ {t}], now, k)} :
            /\ Becomes(b)
            /\ fired' = fired \cup RanIds(b)
            /\ lastOp' = Done("fireThrows", 0,
                              IF nextTasksIds # NullIds THEN nextTasksIds ELSE <<>>,
                              Len(b.ran), TRUE, b)
            /\ UNCHANGED <<now, removed, objVars>>

\* agenda.executeTaskNow(taskId) for a stored task whose payload throws: the
\* exception leaves executeTaskNow before removeTask is reached.
ExecuteTaskNowThrows ==
    \E taskId \in Keys(tasks) :
        LET b == execute(Self, getTasks_id(tasks, <<taskId>>)[1], now, "now")
        IN  /\ Becomes(b)
            /\ lastOp' = Done("executeTaskNowThrows", 1, <<taskId>>, 1, TRUE, b)
            /\ UNCHANGED <<now, removed, fired, objVars>>

ThrowNext == Next \/ TimerFireThrows \/ ExecuteTaskNowThrows

\* The Agenda with payloads that may throw.
ThrowSpec == Init /\ [][ThrowNext]_vars

\* The callback of a due timeout runs and the payload of the k-th tracked
\* task calls agenda.removeTask(id) for a task of the same group that has not
\* run yet; lastOp.ids is that id.
TimerFireRemoves ==
    \E t \in timers :
        /\ now >= t.due
        /\ LET a == [Self EXCEPT !.timers = @ \ {t}]
               nextTasks == getTrackedTasks(a)
           IN  \E k \in 1..Len(nextTasks), j \in 1..Len(nextTasks) :
                /\ k < j
                /\ \E b \in {executeTrackedTasks_Removing(a, now, k, <<nextTasks[j].id>>)} :
                    /\ Becomes(b)
                    /\ removed' = removed \cup {nextTasks[j].id}
                    /\ fired' = fired \cup RanIds(b)
                    /\ lastOp' = Done("fireRemoves", 1, <<nextTasks[j].id>>,
                                      Len(b.ran), TRUE, b)
                    /\ UNCHANGED <<now, objVars>>

\* The callback of a due timeout runs and the payload of the k-th tracked
\* task calls agenda.addTasks(newTask); lastOp.ids is the id of the new entry.
TimerFireAdds ==
    \E t \in timers :
        /\ now >= t.due
        /\ LET a == [Self EXCEPT !.timers = @ \ {t}]
           IN  \E k \in 1..Len(getTrackedTasks(a)), newTask \in TaskArgs(now) \ {NotATask} :
               \E b \in executeTrackedTasks_Adding(a, now, k, <<newTask>>) :
                    /\ Becomes(b)
                    /\ removed' = removed \ Range(b.newIds)
                    /\ fired' = (fired \cup RanIds(b)) \ Range(b.newIds)
                    /\ lastOp' = Done("fireAdds", 1, b.newIds, Len(b.ran), TRUE, b)
                    /\ UNCHANGED <<now, objVars>>

ReentrantNext == Next \/ TimerFireRemoves \/ TimerFireAdds

\* The Agenda with payloads that may call it back.
ReentrantSpec == Init /\ [][ReentrantNext]_vars

\* The same with the timer given its turn and the clock running.
ReentrantFairSpec ==
    Init /\ [][ReentrantNext]_vars /\ WF_vars(TimerFire) /\ WF_vars(Tick)

\* ------------------------------------------------------------- objects
\* Tasks and TaskLists as objects held by reference: what a caller can reach
\* and change through the Task objects it holds and through the TaskList
\* that Agenda.getTaskList() returns.  A Task object has the fields of Task; a
\* #tasks object is a sequence of entries key -> Task reference; a TaskList
\* object holds a reference to its #tasks object and its #timeline (the
\* arrays of a timeline are never changed in place: organizeTasks assigns a
\* new array).  lists[1] is the Agenda's #taskList.
NullName == "null"      \* #name = null, #description = null

\* A Task as constructed: #creationTime and #executionTime refer to the Date
\* objects c and e.
ObjTask(c, e) == [isTask |-> TRUE, id |-> NullId,
                  creationTime |-> c, executionTime |-> e,
                  name |-> NullName, description |-> NullName]

\* The objects, and the Task references out the call in progress returned.
Store == [objs |-> objs, dicts |-> dicts, lists |-> lists, dates |-> dates,
          out |-> <<>>]

Last(q) == q[Len(q)]

\* getCopy returning the Task it was called on.
Task_getCopy_Same(st, r) == [st EXCEPT !.out = Append(@, r)]

\* Task.getCopy of the object r: a new Task object with the same field values.
Task_getCopy(st, r) ==
    [st EXCEPT !.objs = Append(@, st.objs[r]),
               !.out = Append(@, Len(st.objs) + 1)]

\* Task.setId / setName / setDescription on the object r.
Task_set(st, r, field, value) == [st EXCEPT !.objs[r][field] = value]

\* The entries of the #tasks object of the list l, and the stored objects.
Entries(st, l) == st.dicts[st.lists[l].tasks]
StoredObjs(st, l) ==
    [i \in DOMAIN Entries(st, l) |-> st.objs[Entries(st, l)[i].ref]]
EntryKeys(st, l) ==
    [i \in DOMAIN Entries(st, l) |-> [id |-> Entries(st, l)[i].key]]

\* this.#tasks[key] in the list l: the index of the entry, 0 when undefined.
KeyPos(st, l, key) == IndexOf(EntryKeys(st, l), key)

\* The Tasks ts with the time values their Date objects have.
Timed(st, ts) ==
    [i \in DOMAIN ts |-> [ts[i] EXCEPT !.creationTime = st.dates[@],
                                       !.executionTime = st.dates[@]]]

\* organizeTasks of the list l: it reads the ids and the times from the
\* stored objects.
Obj_organizeTasks(st, l) ==
    [st EXCEPT !.lists[l].timeline = organizeTasks(Timed(st, StoredObjs(st, l)))]

\* addTasks writing the new id into the Task it was given as well.
Obj_addTasks_StampsOriginal(st, l, r, newId) ==
    LET c == Task_getCopy(st, r)
        newEleTask == Last(c.out)
        put == [c EXCEPT !.objs[newEleTask].id = newId,
                         !.objs[r].id = newId,
                         !.dicts[st.lists[l].tasks] =
                             Append(@, [key |-> newId, ref |-> newEleTask])]
    IN  Obj_organizeTasks(put, l)

\* TaskList.addTasks(task) of the list l, for the Task object r and the id
\* the generator returned.
Obj_addTasks(st, l, r, newId) ==
    LET c == Task_getCopy(st, r)
        newEleTask == Last(c.out)
        put == [c EXCEPT !.objs[newEleTask].id = newId,
                         !.dicts[st.lists[l].tasks] =
                             Append(@, [key |-> newId, ref |-> newEleTask])]
    IN  Obj_organizeTasks(put, l)

\* TaskList.removeTasks(taskId) of the list l.
Obj_removeTasks(st, l, taskId) ==
    IF KeyPos(st, l, taskId) # 0
    THEN Obj_organizeTasks(
             [st EXCEPT !.dicts[st.lists[l].tasks] =
                            SelectSeq(@, LAMBDA e : e.key # taskId)], l)
    ELSE st

\* TaskList.getTasks_id(taskId) of the list l.
Obj_getTasks_id(st, l, taskId) ==
    IF KeyPos(st, l, taskId) # 0
    THEN Task_getCopy(st, Entries(st, l)[KeyPos(st, l, taskId)].ref)
    ELSE st

\* The loop of getTasks_timelineIndex over ids[i..]: this.#tasks[id].getCopy().
RECURSIVE copyIds(_, _, _, _)
copyIds(st, l, ids, i) ==
    IF i > Len(ids) THEN st
    ELSE copyIds(Task_getCopy(st, Entries(st, l)[KeyPos(st, l, ids[i])].ref),
                 l, ids, i + 1)

\* TaskList.getNextTasks of the list l: getTasks_timelineIndex(0).
Obj_getNextTasks(st, l) ==
    IF Len(st.lists[l].timeline) > 0
    THEN copyIds(st, l, st.lists[l].timeline[1], 1)
    ELSE st

\* TaskList.getTasksCopy over entries[i..]: one getCopy for each value.
RECURSIVE getTasksCopy(_, _, _)
getTasksCopy(st, entries, i) ==
    IF i > Len(entries) THEN st
    ELSE getTasksCopy(Task_getCopy(st, entries[i].ref), entries, i + 1)

\* TaskList.getTimelineCopy: a new array of new arrays of the same ids.
getTimelineCopy(tl) == [g \in DOMAIN tl |-> [i \in DOMAIN tl[g] |-> tl[g][i]]]

\* getCopy handing its own #tasks object to the new TaskList.
TaskList_getCopy_SharedTasks(st, l) ==
    [st EXCEPT !.lists = Append(@, [tasks |-> st.lists[l].tasks,
                                    timeline |-> getTimelineCopy(st.lists[l].timeline)])]

\* TaskList.getCopy of the list l: a new TaskList with a new #tasks object
\* of copies and a copy of the timeline.
TaskList_getCopy(st, l) ==
    LET entries == Entries(st, l)
        c == getTasksCopy(st, entries, 1)
        output == [i \in DOMAIN entries |-> [key |-> entries[i].key, ref |-> c.out[i]]]
    IN  [c EXCEPT !.dicts = Append(@, output),
                  !.lists = Append(@, [tasks |-> Len(c.dicts) + 1,
                                       timeline |-> getTimelineCopy(st.lists[l].timeline)]),
                  !.out = <<>>]

\* String.prototype.toLowerCase on the strings used here.
toLowerCase(str) == IF str = "X" THEN "x" ELSE str

\* String.prototype.includes on strings of at most one character.
includes(str, searchVal) == searchVal = "" \/ searchVal = str

\* The search strings a caller passes to findTasksByName.
SearchStrings == {"", "x", "X"}

\* The loop of findTasksByName over entries[i..]: element.getName() is null
\* for a Task whose name was never set, and calling includes or toLowerCase
\* on null throws a TypeError.
RECURSIVE findByNameLoop(_, _, _, _, _, _)
findByNameLoop(st, entries, i, searchVal, caseSensitive, foundTasks) ==
    IF i > Len(entries) THEN Returned(foundTasks)
    ELSE LET element == st.objs[entries[i].ref]
         IN  IF element.name = NullName THEN Raised("TypeError")
             ELSE LET searchTarget == IF caseSensitive THEN element.name
                                      ELSE toLowerCase(element.name)
                  IN  findByNameLoop(st, entries, i + 1, searchVal, caseSensitive,
                          IF includes(searchTarget, searchVal)
                          THEN Append(foundTasks, [key |-> element.id, task |-> element])
                          ELSE foundTasks)

\* TaskList.findTasksByName(searchString, caseSensitive) of the list l: the
\* entries of the TaskList it returns, each a copy of the stored Task.
findTasksByName(st, l, searchString, caseSensitive) ==
    findByNameLoop(st, Entries(st, l), 1,
                   IF caseSensitive THEN searchString ELSE toLowerCase(searchString),
                   caseSensitive, <<>>)

\* The values a caller passes to a setter: an id of the id space, a string.
SetterArgs(field) == IF field = "id" THEN {NumIds} ELSE {"x"}

Adopt(b) == objs' = b.objs /\ dicts' = b.dicts /\ lists' = b.lists

\* What lastCall records of a call: its name, the list it was made on, and
\* for a setter how the caller got the Task and the field set.
Called(op, l, how, field) == [op |-> op, list |-> l, how |-> how, field |-> field]

\* Task.createTaskWith...: the caller holds a new Task, whose creation time
\* is a new Date() and whose execution time is a Date due at e that the
\* caller does not keep.
CreateTask ==
    /\ Len(objs) < MaxObjs
    /\ \E e \in {now, now + 1} :
          /\ dates' = dates \o <<now, e>>
          /\ objs' = Append(objs, ObjTask(Len(dates) + 1, Len(dates) + 2))
          /\ held' = held \cup {[ref |-> Len(objs) + 1, how |-> "created"]}
          /\ lastCall' = Called("create", 0, "", "")
    /\ UNCHANGED <<dicts, lists, agendaVars, staticVars, heldDates>>

\* addTasks(task) on a TaskList with a Task the caller holds; on lists[1] it
\* is the registry's part of Agenda.addTasks.
ListAddTasks ==
    /\ Len(objs) < MaxObjs
    /\ \E l \in DOMAIN lists, h \in held :
          \E newId \in generateUniqueID(EntryKeys(Store, l)) :
              /\ Adopt(Obj_addTasks(Store, l, h.ref, newId))
              /\ held' = (held \ {h}) \cup {[ref |-> h.ref, how |-> "added"]}
              /\ lastCall' = Called("addTasks", l, "", "")
    /\ UNCHANGED <<agendaVars, staticVars, dateVars>>

\* removeTasks(taskId) on a TaskList.
ListRemoveTasks ==
    /\ \E l \in DOMAIN lists, taskId \in Ids :
          /\ Adopt(Obj_removeTasks(Store, l, taskId))
          /\ lastCall' = Called("removeTasks", l, "", "")
    /\ UNCHANGED <<held, agendaVars, staticVars, dateVars>>

\* getTasks_id(taskId) on a TaskList: the caller holds what it returns.
GetTasksById ==
    /\ Len(objs) < MaxObjs
    /\ \E l \in DOMAIN lists, taskId \in Ids :
          LET b == Obj_getTasks_id(Store, l, taskId)
          IN  /\ Adopt(b)
              /\ held' = held \cup {[ref |-> b.out[i], how |-> "query"] : i \in DOMAIN b.out}
              /\ lastCall' = Called("getTasks_id", l, "", "")
    /\ UNCHANGED <<agendaVars, staticVars, dateVars>>

\* getNextTasks() on a TaskList whose first group names stored tasks.
GetNextTasks ==
    /\ \E l \in DOMAIN lists :
          /\ Len(lists[l].timeline) > 0
          /\ Len(objs) + Len(lists[l].timeline[1]) <= MaxObjs
          /\ \A i \in DOMAIN lists[l].timeline[1] :
                KeyPos(Store, l, lists[l].timeline[1][i]) # 0
          /\ LET b == Obj_getNextTasks(Store, l)
             IN  /\ Adopt(b)
                 /\ held' = held \cup {[ref |-> b.out[i], how |-> "query"] : i \in DOMAIN b.out}
                 /\ lastCall' = Called("getNextTasks", l, "", "")
    /\ UNCHANGED <<agendaVars, staticVars, dateVars>>

\* Agenda.getTaskList(): this.#taskList.getCopy().
GetTaskList ==
    /\ Len(lists) < MaxLists
    /\ Len(objs) + Len(Entries(Store, 1)) <= MaxObjs
    /\ Adopt(TaskList_getCopy(Store, 1))
    /\ lastCall' = Called("getTaskList", Len(lists) + 1, "", "")
    /\ UNCHANGED <<held, agendaVars, staticVars, dateVars>>

\* setId / setName / setDescription on a Task the caller holds.
CallSetter ==
    /\ \E h \in held, field \in {"id", "name", "description"} :
          \E value \in SetterArgs(field) :
              /\ Adopt(Task_set(Store, h.ref, field, value))
              /\ lastCall' = Called("set", 0, h.how, field)
    /\ UNCHANGED <<held, agendaVars, staticVars, dateVars>>

ObjNext == CreateTask \/ ListAddTasks \/ ListRemoveTasks \/ GetTasksById
           \/ GetNextTasks \/ GetTaskList \/ CallSetter

ObjSpec == Init /\ [][ObjNext]_vars

\* ---------------------------------------------------------------- dates
\* Date.prototype.setTime(value) on the Date object r.
Date_setTime(st, r, value) == [st EXCEPT !.dates[r] = value]

\* Task.getCreationTime / getExectutionTime of the Task r: the Date object
\* the field refers to.
Task_getTime(st, r, field) == st.objs[r][field]

\* d = new Date(e); Task.createTaskWithExecutionTime(d, fn): the Task's
\* #executionTime is d itself, and the caller holds the Task and d.
CreateTaskWithDate ==
    /\ Len(objs) < MaxObjs
    /\ \E e \in {now, now + 1} :
          /\ dates' = dates \o <<e, now>>
          /\ objs' = Append(objs, ObjTask(Len(dates) + 2, Len(dates) + 1))
          /\ held' = held \cup {[ref |-> Len(objs) + 1, how |-> "created"]}
          /\ heldDates' = heldDates \cup {[ref |-> Len(dates) + 1, how |-> "given"]}
          /\ lastCall' = Called("create", 0, "", "")
    /\ UNCHANGED <<dicts, lists, agendaVars, staticVars>>

\* getCreationTime() or getExectutionTime() on a Task the caller holds: the
\* caller holds the Date returned.
GetTimeObject ==
    /\ \E h \in held, field \in {"creationTime", "executionTime"} :
          /\ heldDates' = heldDates \cup
                 {[ref |-> Task_getTime(Store, h.ref, field), how |-> h.how]}
          /\ lastCall' = Called("getTime", 0, h.how, field)
    /\ UNCHANGED <<objs, dicts, lists, held, dates, agendaVars, staticVars>>

\* setTime(value) on a Date the caller holds.
SetTime ==
    /\ \E d \in heldDates, value \in Times :
          /\ dates' = Date_setTime(Store, d.ref, value).dates
          /\ lastCall' = Called("setTime", 0, d.how, "")
    /\ UNCHANGED <<objs, dicts, lists, held, heldDates, agendaVars, staticVars>>

DateNext == CreateTaskWithDate \/ ListAddTasks \/ GetTasksById
            \/ GetTimeObject \/ SetTime

\* Tasks, the registry and the Date objects the caller can reach.
DateSpec == Init /\ [][DateNext]_vars

\* ----------------------------------------------------------- singleton
\* The static side of class Agenda.  Agenda objects are numbered in the order
\* of their construction; the variables of the Agenda above are the fields of
\* the first one.
Statics == [agenda |-> agenda, made |-> made]

\* Agenda.#init: Agenda.#agenda = new Agenda().
Agenda_init(s) == [s EXCEPT !.made = @ + 1, !.agenda = s.made + 1]

\* getAgenda constructing a new Agenda on every call.
getAgenda_AlwaysInit(s) ==
    LET t == Agenda_init(s) IN [statics |-> t, returned |-> t.agenda]

\* Agenda.getAgenda(): the statics after the call and the reference returned.
getAgenda(s) ==
    LET t == IF s.agenda = NullAgenda THEN Agenda_init(s) ELSE s
    IN  [statics |-> t, returned |-> t.agenda]

\* Agenda.getAgenda() is called and the caller keeps the reference.
GetAgenda ==
    /\ made < MaxAgendas
    /\ LET r == getAgenda(Statics)
       IN  /\ agenda' = r.statics.agenda
           /\ made' = r.statics.made
           /\ got' = got \cup {r.returned}
    /\ lastCall' = Called("getAgenda", 0, "", "")
    /\ UNCHANGED <<agendaVars, objs, dicts, lists, held, dateVars>>

\* An operation of the Agenda called through a reference getAgenda()
\* returned; the Agenda of the variables above is the first one constructed.
ViaAgenda ==
    \E r \in got : r = 1 /\ (AddTasks \/ RemoveTask \/ ExecuteTaskNow)

SingletonNext == GetAgenda \/ ViaAgenda \/ TimerFire \/ Tick

\* The Agenda reached through Agenda.getAgenda().
SingletonSpec == Init /\ [][SingletonNext]_vars

\* ------------------------------------------------------------- claims
Armed == activeTimerId # NullTimer
Idle == activeTimerId = NullTimer /\ nextTasksIds = NullIds /\ timers = {}

\* The raw delay of a stored task, and the timeline group an id is in.
RawDelay(task) == task.executionTime - task.creationTime
GroupsOf(id) == {g \in DOMAIN timeline : id \in Range(timeline[g])}

\* C1: in every reachable state at most one timer armed by the Agenda is
\* live, however many tasks are pending.
C1_AtMostOneLiveTimer == Cardinality(timers) <= 1

\* C1 witness: a second task was added in front of a tracked one, so the timer
\* was cancelled and armed again, and one timer is live for two groups.
C1_Witness ==
    /\ lastOp.op = "addTasks" /\ lastOp.before = 1 /\ lastOp.n = 1
    /\ Len(timeline) = 2 /\ nextTasksIds = lastOp.ids
    /\ Cardinality(timers) = 1

\* C2 (as claimed): every payload a timer fire invokes is invoked at a clock
\* reading at or after that task's own executionTime.
C2_FiresAtOrAfterExecutionTime ==
    lastOp.op = "fire" =>
        \A i \in DOMAIN lastOp.ran : lastOp.ran[i].at >= lastOp.ran[i].executionTime

\* C3 (as claimed): whenever the Agenda is armed, the tracked execution time is
\* the smallest executionTime among the stored tasks.
C3_TracksEarliestExecutionTime ==
    Armed => /\ Len(tasks) > 0
             /\ nextExecutionTime = SetMin({tasks[i].executionTime : i \in DOMAIN tasks})

\* The last operation was an addTasks call that stored a task.
StoredATask == lastOp.op = "addTasks" /\ lastOp.flag

\* C4: if only finitely many addTasks calls store a task, every stored task is
\* eventually executed by a timer fire unless removeTask names it, and the
\* Agenda ends Idle with no task left.
C4_EveryTaskEventuallyFires ==
    (<>[]~StoredATask) =>
        /\ \A id \in Ids : (id \in Keys(tasks)) ~> (id \in fired \/ id \in removed)
        /\ <>[](Idle /\ taskCount(tasks) = 0)

\* C4 witness: the timer fired for the last stored task, which had been added
\* for a later moment, and left the Agenda Idle and empty.
C4_Witness ==
    /\ lastOp.op = "fire" /\ lastOp.n >= 1 /\ lastOp.ret = 0
    /\ \E i \in DOMAIN lastOp.ran : lastOp.ran[i].executionTime > 0
    /\ Idle /\ fired # {}

\* C5: removeTask(id) for a stored id returns a count that no longer includes
\* the task, and no timer fire invokes its payload afterwards.
C5_RemovedTaskNeverFires ==
    /\ (lastOp.op = "removeTask" /\ lastOp.len = 1 /\ lastOp.n = 1) =>
          /\ lastOp.ret = lastOp.before - 1
          /\ lastOp.ids[1] \notin Keys(tasks)
    /\ lastOp.op = "fire" =>
          \A i \in DOMAIN lastOp.ran : lastOp.ran[i].id \notin removed
    /\ removed \cap Keys(tasks) = {}

\* C5 witness: a timer fired and ran a payload after a tracked task had been
\* removed by id.
C5_Witness ==
    /\ lastOp.op = "fire" /\ lastOp.n >= 1
    /\ removed # {}

\* C6 (as claimed): removeTask(id1, ..., idn) deletes every given id that is
\* stored: the count falls by the number of distinct stored ids given and none
\* of them is stored afterwards.
C6_RemovesEveryGivenId ==
    lastOp.op = "removeTask" =>
        /\ lastOp.ret = lastOp.before - lastOp.n
        /\ Range(lastOp.ids) \cap Keys(tasks) = {}

\* C7: the task count is the number of distinct stored ids and never negative;
\* addTasks raises it by one for each Task argument, also for the same Task
\* given twice, and each deletion (removeTask(id), executeTaskNow, a fired
\* task) lowers it by one.
C7_CountIsNumberOfIds ==
    /\ taskCount(tasks) = Cardinality(Keys(tasks))
    /\ taskCount(tasks) >= 0
    /\ lastOp.op # "new" => lastOp.ret = taskCount(tasks)
    /\ lastOp.op = "addTasks" => lastOp.ret = lastOp.before + lastOp.n
    /\ (lastOp.op = "removeTask" /\ lastOp.len = 1) =>
          lastOp.ret = lastOp.before - lastOp.n
    /\ (lastOp.op = "removeTask" /\ ~lastOp.flag) => lastOp.ret = lastOp.before
    /\ lastOp.op = "executeTaskNow" =>
          lastOp.ret = lastOp.before - (IF lastOp.flag THEN lastOp.n ELSE 0)
    /\ lastOp.op = "fire" => lastOp.ret = lastOp.before - lastOp.n

\* C7 witness: one addTasks call stored the same Task twice, as two entries
\* that differ in their id only, and the count rose from 0 to 2.
C7_Witness ==
    /\ lastOp.op = "addTasks" /\ lastOp.n = 2 /\ lastOp.before = 0 /\ lastOp.ret = 2
    /\ Len(tasks) = 2
    /\ tasks[1].id # tasks[2].id
    /\ [tasks[1] EXCEPT !.id = NullId] = [tasks[2] EXCEPT !.id = NullId]

\* C8: the timeline partitions the stored ids: every stored id is in exactly
\* one group, at one position; no group is empty; no other id is in a group.
C8_TimelinePartitionsIds ==
    /\ \A id \in Keys(tasks) :
          /\ Cardinality(GroupsOf(id)) = 1
          /\ \A g \in GroupsOf(id) :
                Cardinality({i \in DOMAIN timeline[g] : timeline[g][i] = id}) = 1
    /\ \A g \in DOMAIN timeline :
          /\ Len(timeline[g]) > 0
          /\ Range(timeline[g]) \subseteq Keys(tasks)

\* C8 witness: a removal left one of two groups, after the timeline held two
\* tasks in two groups.
C8_Witness ==
    /\ lastOp.op = "removeTask" /\ lastOp.before = 2 /\ lastOp.ret = 1
    /\ Len(timeline) = 1 /\ Len(timeline[1]) = 1

C10_SlotsByExecutionTime ==
    \A i, j \in DOMAIN tasks :
        \A g \in GroupsOf(tasks[i].id), h \in GroupsOf(tasks[j].id) :
            /\ (tasks[i].executionTime = tasks[j].executionTime) => (g = h)
            /\ (g < h) => (tasks[i].executionTime <= tasks[j].executionTime)

\* The stored task of a stored id, the ids the Agenda tracks and the ids of
\* the first timeline group.
StoredTask(id) == tasks[IndexOf(tasks, id)]
TrackedIds == IF nextTasksIds # NullIds THEN Range(nextTasksIds) ELSE {}
FirstGroupIds == Range(getNextTaskIds(timeline))

\* C11: after every operation and every timer fire the tracked ids are the ids
\* of the first timeline group (none when the registry is empty), the tracked
\* time is that of the group's first task, and the only live timer is the one
\* armed for this group: a timer of an earlier group is cancelled.
C11_TrackedIsFirstGroup ==
    /\ TrackedIds = FirstGroupIds
    /\ (tasks = <<>>) => (TrackedIds = {} /\ timers = {} /\ ~Armed)
    /\ (tasks # <<>>) =>
          /\ Armed
          /\ nextExecutionTime = StoredTask(timeline[1][1]).executionTime
          /\ Cardinality(timers) = 1
    /\ \A t \in timers : t.tid = activeTimerId

\* C11 witness: removeTask deleted the only task of the tracked group while
\* another group was stored; the timer was cancelled and armed for that group.
C11_Witness ==
    /\ lastOp.op = "removeTask" /\ lastOp.before = 2 /\ lastOp.ret = 1
    /\ lastOp.cancelled = 1 /\ Len(lastOp.armed) = 1
    /\ nextTasksIds = timeline[1]

\* C12: an addTasks or removeTask call that leaves the ids of the first
\* timeline group as they were neither cancels nor arms a timer and leaves
\* the tracked ids, the tracked time and the live timer unchanged.
C12_SameFirstGroupKeepsTimer ==
    [][(/\ lastOp'.op \in {"addTasks", "removeTask"}
        /\ Range(getNextTaskIds(timeline')) = FirstGroupIds)
       => /\ lastOp'.armed = <<>> /\ lastOp'.cancelled = 0
          /\ nextTasksIds' = nextTasksIds
          /\ nextExecutionTime' = nextExecutionTime
          /\ activeTimerId' = activeTimerId
          /\ timers' = timers]_vars

\* C12 witness: a task was added behind a tracked one, in a second group, and
\* no timer was cancelled or armed.
C12_Witness ==
    /\ lastOp.op = "addTasks" /\ lastOp.before = 1 /\ lastOp.n = 1
    /\ Len(timeline) = 2 /\ timeline[2] = lastOp.ids
    /\ lastOp.armed = <<>> /\ lastOp.cancelled = 0 /\ Armed

\* C13: a timer fire invokes the payload of every tracked task once, in the
\* order of the tracked id list, and deletes them all in the same callback;
\* no other task is invoked or deleted; a timer is armed at its end exactly
\* when tasks remain.
C13_FireRunsTheTrackedGroup ==
    lastOp.op = "fire" =>
        /\ [i \in DOMAIN lastOp.ran |-> lastOp.ran[i].id] = lastOp.ids
        /\ \A i \in DOMAIN lastOp.ran : lastOp.ran[i].via = "timer"
        /\ Range(lastOp.ids) \cap Keys(tasks) = {}
        /\ lastOp.ret = lastOp.before - Len(lastOp.ids)
        /\ Armed <=> (taskCount(tasks) > 0)
        /\ Len(lastOp.armed) = (IF taskCount(tasks) > 0 THEN 1 ELSE 0)

\* C13 witness: the timer fired for a group of one while a task of a later
\* group was stored; that task stays and a timer is armed for it.
C13_Witness ==
    /\ lastOp.op = "fire" /\ Len(lastOp.ids) = 1 /\ lastOp.before = 2
    /\ lastOp.ret = 1 /\ Armed /\ Len(lastOp.armed) = 1

\* C14 (as claimed): the delay of every timer armed is max(executionTime -
\* now, 0) of the tracked task, never negative, and after an addTasks call
\* that stored a task whose executionTime is reached a timer of delay 0 is
\* pending.
C14_DueTaskArmedWithDelayZero ==
    /\ lastOp.armed # <<>> =>
          LET delay == lastOp.armed[Len(lastOp.armed)]
          IN  /\ delay = Max(nextExecutionTime - now, 0)
              /\ delay >= 0
              /\ timers = {[tid |-> activeTimerId, due |-> now + delay]}
    /\ lastOp.op = "addTasks" =>
          \A id \in Range(lastOp.ids) :
              StoredTask(id).executionTime <= now => \E t \in timers : t.due <= now

\* C15: addTasks stores every Task with the creationTime and executionTime it
\* was constructed with, whenever it is added, leaves the stored tasks as they
\* are, and a timer armed for a new task is armed for that executionTime.
C15_AddKeepsTaskTimes ==
    \A newTasks \in SeqsUpTo(TaskArgs(now), MaxBatch) :
        \A b \in Agenda_addTasks(Self, newTasks, now) :
            LET valid == SelectSeq(newTasks, LAMBDA t : t.isTask)
            IN  /\ Len(b.newIds) = Len(valid)
                /\ \A j \in DOMAIN tasks : b.tasks[j] = tasks[j]
                /\ \A i \in DOMAIN valid :
                      LET t == b.tasks[IndexOf(b.tasks, b.newIds[i])]
                      IN  /\ t.creationTime = valid[i].creationTime
                          /\ t.executionTime = valid[i].executionTime
                          /\ (b.nextTasksIds # NullIds /\ b.nextTasksIds[1] = t.id) =>
                                /\ b.nextExecutionTime = valid[i].executionTime
                                /\ b.armed = <<Max(valid[i].executionTime - now, 0)>>

\* C15 witness: a task created at 0 with delay 2 was added at 1; the timer is
\* armed for 2, with delay 1.
C15_Witness ==
    /\ lastOp.op = "addTasks" /\ lastOp.before = 0 /\ lastOp.n = 1
    /\ now = 1
    /\ tasks[1].creationTime = 0 /\ tasks[1].executionTime = 2
    /\ nextExecutionTime = 2 /\ lastOp.armed = <<1>>
    /\ timers = {[tid |-> activeTimerId, due |-> 2]}

\* What the queries of the list l return: for each key the field values of
\* the stored Task, and the timeline.
ListView(l) ==
    [tasks |-> [i \in DOMAIN Entries(Store, l) |->
                  [key |-> Entries(Store, l)[i].key,
                   task |-> objs[Entries(Store, l)[i].ref]]],
     timeline |-> lists[l].timeline]

\* C16: setId, setName or setDescription on a Task the caller holds (one it
\* created, also after passing it to addTasks, or one a query returned)
\* changes nothing of what the queries of any TaskList return.
C16_SettersLeaveRegistryAlone ==
    [][lastCall'.op = "set" =>
          /\ lists' = lists
          /\ \A l \in DOMAIN lists : ListView(l)' = ListView(l)]_vars

\* C16 witness: setId was called on a Task a query returned while the
\* registry stores a task, which still has the id it is stored under.
C16_Witness ==
    /\ lastCall.op = "set" /\ lastCall.how = "query" /\ lastCall.field = "id"
    /\ Len(dicts[1]) = 1
    /\ objs[dicts[1][1].ref].id = dicts[1][1].key
    /\ \E h \in held : h.how = "query" /\ objs[h.ref].id # dicts[1][1].key

\* C17: the TaskList getTaskList() returns has the ids and the timeline of
\* the registry, and addTasks or removeTasks on it leaves the registry's
\* count, contents and timeline, the tracked ids and the timer unchanged.
C17_SnapshotIsDetached ==
    /\ [](lastCall.op = "getTaskList" =>
             /\ Range(EntryKeys(Store, lastCall.list)) = Range(EntryKeys(Store, 1))
             /\ lists[lastCall.list].timeline = lists[1].timeline
             /\ Len(Entries(Store, lastCall.list)) = Len(Entries(Store, 1)))
    /\ [][(lastCall'.op \in {"addTasks", "removeTasks"} /\ lastCall'.list # 1) =>
             /\ ListView(1)' = ListView(1)
             /\ UNCHANGED <<nextTasksIds, nextExecutionTime, activeTimerId, timers>>]_vars

\* C17 witness: removeTasks on the returned TaskList deleted its only task
\* while the registry still stores its own.
C17_Witness ==
    /\ lastCall.op = "removeTasks" /\ lastCall.list = 2
    /\ Len(lists) = 2
    /\ Len(Entries(Store, 2)) = 0 /\ lists[2].timeline = <<>>
    /\ Len(Entries(Store, 1)) = 1 /\ Len(lists[1].timeline) = 1

\* C18: executeTaskNow(id) with removeAfterExecution = true on a stored id
\* invokes that task's payload once, within the call, deletes the task and
\* returns the new count; the tracker then follows the remaining first group,
\* or is Idle when nothing remains; no timer fire invokes the task afterwards.
C18_ExecuteNowRunsOnceAndRemoves ==
    /\ (lastOp.op = "executeTaskNow" /\ lastOp.flag /\ lastOp.n = 1) =>
          /\ Len(lastOp.ran) = 1
          /\ lastOp.ran[1].id = lastOp.ids[1]
          /\ lastOp.ran[1].via = "now" /\ lastOp.ran[1].at = now
          /\ lastOp.ids[1] \notin Keys(tasks)
          /\ lastOp.ids[1] \notin TrackedIds
          /\ lastOp.ret = lastOp.before - 1 /\ lastOp.ret = taskCount(tasks)
          /\ IF tasks = <<>> THEN Idle
             ELSE /\ Armed /\ TrackedIds = FirstGroupIds
                  /\ Cardinality(timers) = 1
                  /\ \A t \in timers : t.tid = activeTimerId
          /\ lastOp.ids[1] \in removed
    /\ lastOp.op = "fire" => RanIds(lastOp) \cap removed = {}

\* C18 witness: executeTaskNow ran and deleted the tracked task while a task
\* of a later group was stored; the timer was cancelled and armed for it.
C18_Witness ==
    /\ lastOp.op = "executeTaskNow" /\ lastOp.flag /\ lastOp.n = 1
    /\ lastOp.before = 2 /\ lastOp.ret = 1
    /\ Len(lastOp.ran) = 1 /\ lastOp.cancelled = 1 /\ Len(lastOp.armed) = 1
    /\ Armed /\ nextTasksIds = timeline[1]

\* C19: executeTaskNow(id) for an id that is not stored invokes no payload,
\* leaves the registry, the tracked ids, the tracked time and the timer as
\* they were, and returns the current count.
C19_ExecuteNowOfUnknownIdIsNoOp ==
    [][(lastOp'.op = "executeTaskNow" /\ lastOp'.n = 0) =>
          /\ lastOp'.ran = <<>>
          /\ lastOp'.armed = <<>> /\ lastOp'.cancelled = 0
          /\ UNCHANGED <<tasks, timeline, nextTasksIds, nextExecutionTime,
                         activeTimerId, timers>>
          /\ lastOp'.ret = taskCount(tasks)]_vars

\* C19 witness: executeTaskNow was called with an id that is not stored while
\* another task was stored and tracked.
C19_Witness ==
    /\ lastOp.op = "executeTaskNow" /\ lastOp.n = 0 /\ lastOp.flag
    /\ lastOp.before = 1 /\ lastOp.ret = 1 /\ Armed
    /\ Cardinality(timers) = 1

\* C20 (as claimed): getNextExectutionTime() returns the tracked execution
\* time while a timer is armed, and null (no date value) while nothing is
\* tracked.
C20_NextExecutionTimeOrNull ==
    /\ Armed => getNextExectutionTime(Self) = nextExecutionTime
    /\ TrackedIds = {} => getNextExectutionTime(Self) = NullTime

\* C21 (as claimed): getTasks_timelineIndex(i) fails with a RangeError for
\* every integer i < 0 and every i >= timeline length (so getNextTasks() fails
\* on an empty registry), and returns the tasks of group i for 0 <= i < length.
C21_IndexOutsideTimelineFails ==
    /\ \A i \in (0 - 1)..(Len(timeline) + 1) :
          LET r == getTasks_timelineIndex(tasks, timeline, i)
          IN  IF i < 0 \/ i >= Len(timeline)
              THEN r.raised = "RangeError"
              ELSE /\ r.raised = ""
                   /\ [k \in DOMAIN r.out |-> r.out[k].id] = timeline[i + 1]
    /\ timeline = <<>> => getNextTasks(tasks, timeline).raised = "RangeError"

\* C22: an addTasks call whose arguments hold no Task (or that has no
\* argument) stores nothing, leaves the registry, the timeline, the tracked
\* ids and the timer as they were and returns the unchanged count; a call
\* with Tasks and other values stores a copy of each Task and nothing else.
C22_OnlyTasksAreStored ==
    /\ \A newTasks \in SeqsUpTo(TaskArgs(now), MaxBatch) :
          \A b \in Agenda_addTasks(Self, newTasks, now) :
              LET valid == SelectSeq(newTasks, LAMBDA t : t.isTask)
              IN  /\ Len(b.newIds) = Len(valid)
                  /\ taskCount(b.tasks) = taskCount(tasks) + Len(valid)
                  /\ Keys(b.tasks) = Keys(tasks) \cup Range(b.newIds)
                  /\ \A k \in DOMAIN valid :
                        b.tasks[IndexOf(b.tasks, b.newIds[k])]
                            = [valid[k] EXCEPT !.id = b.newIds[k]]
                  /\ \A k \in DOMAIN b.tasks : b.tasks[k].isTask
                  /\ Len(valid) = 0 => (b = Self /\ getTaskCount(b) = taskCount(tasks))
    /\ \A newTasks \in SeqsUpTo({NotATask}, MaxBatch) :
          \A r \in TaskList_addTasks(tasks, timeline, newTasks) :
              ~r.changed /\ r.tasks = tasks /\ r.timeline = timeline
    /\ (lastOp.op = "addTasks" /\ lastOp.n = 0) =>
          /\ ~lastOp.flag /\ lastOp.ret = lastOp.before
          /\ lastOp.ret = taskCount(tasks)
          /\ lastOp.armed = <<>> /\ lastOp.cancelled = 0 /\ lastOp.ran = <<>>
    /\ lastOp.op = "addTasks" =>
          /\ Len(lastOp.ids) = lastOp.n
          /\ lastOp.ret = lastOp.before + lastOp.n

\* C22 witness: addTasks was called with two values that are not Tasks while
\* a task was stored and tracked; the count is still 1 and the timer is live.
C22_Witness ==
    /\ lastOp.op = "addTasks" /\ lastOp.len = 2 /\ lastOp.n = 0
    /\ lastOp.before = 1 /\ lastOp.ret = 1
    /\ Armed /\ Cardinality(timers) = 1

\* The Agenda a as the next operation finds it: nothing invoked, armed or
\* cancelled yet.
Settled(a) == [a EXCEPT !.ran = <<>>, !.newIds = <<>>, !.armed = <<>>,
                        !.cancelled = 0]

\* C23: removeTask(id) for an id that is not stored is not an error: a second
\* removeTask(id) right after the first leaves the registry, the timeline,
\* the tracked ids and the timer as the first left them and returns the same
\* count.
C23_RemoveTwiceIsRemoveOnce ==
    /\ \A id \in Ids :
          LET once == Settled(Agenda_removeTask(Self, <<id>>, now))
              twice == Agenda_removeTask(once, <<id>>, now)
          IN  /\ twice = once
              /\ getTaskCount(twice) = getTaskCount(once)
              /\ id \notin Keys(once.tasks)
    /\ (lastOp.op = "removeTask" /\ lastOp.len = 1 /\ lastOp.n = 0) =>
          /\ ~lastOp.flag /\ lastOp.ret = lastOp.before
          /\ lastOp.ret = taskCount(tasks)
          /\ lastOp.armed = <<>> /\ lastOp.cancelled = 0

\* C23 witness: removeTask was called with the id of a task removed before,
\* which is no longer stored, while another task was stored and tracked.
C23_Witness ==
    /\ lastOp.op = "removeTask" /\ lastOp.len = 1 /\ lastOp.n = 0
    /\ lastOp.before = 1 /\ lastOp.ret = 1
    /\ removed # {} /\ Armed /\ Cardinality(timers) = 1

\* C24 (as claimed): Task construction raises and creates no Task when the
\* payload is not callable, when createTaskWithExecutionTime is given a value
\* that is not a valid time, and when createTaskWithExecutionDelay is given a
\* delay that is not a non-negative integer.
C24_ConstructionRejectsBadArguments ==
    \A callable \in BOOLEAN :
        /\ \A executionTime \in TimeArgs :
              LET r == createTaskWithExecutionTime(executionTime, callable, now)
              IN  IF callable /\ executionTime.isDate /\ executionTime.valid
                  THEN r.raised = "" /\ Len(r.out) = 1
                  ELSE r.raised # "" /\ r.out = <<>>
        /\ \A executionDelay \in DelayArgs :
              LET r == createTaskWithExecutionDelay(executionDelay, callable, now)
              IN  IF callable /\ executionDelay.isInteger /\ executionDelay.value >= 0
                  THEN r.raised = "" /\ Len(r.out) = 1
                  ELSE r.raised # "" /\ r.out = <<>>

\* C25 (as claimed): when the payload of a task of the fired group throws,
\* every task of the group is still invoked in that fire and every task of
\* the group, the throwing one too, is deleted from the registry.
C25_ThrowingPayloadIsIsolated ==
    lastOp.op = "fireThrows" =>
        /\ [i \in DOMAIN lastOp.ran |-> lastOp.ran[i].id] = lastOp.ids
        /\ Range(lastOp.ids) \cap Keys(tasks) = {}

\* C26 (as claimed): after a fire in which a payload threw, a live timer is
\* armed for the first timeline group whenever tasks remain (on which the
\* eventual execution of the remaining tasks rests).
C26_SchedulerSurvivesThrow ==
    (lastOp.op = "fireThrows" /\ tasks # <<>>) =>
        /\ \E t \in timers : t.tid = activeTimerId
        /\ TrackedIds = FirstGroupIds

\* C30: between callbacks the three tracker fields agree: #nextTasksIds is a
\* non-empty array exactly when #activeTimerId holds a handle, exactly when
\* #nextExecutionTime is set, and exactly when the registry is not empty; all
\* three are null exactly when the registry is empty.
C30_TrackerFieldsAgree ==
    LET idsSet == nextTasksIds # NullIds /\ Len(nextTasksIds) > 0
        handleHeld == activeTimerId # NullTimer
        timeSet == nextExecutionTime # NullTime
    IN  /\ idsSet <=> handleHeld
        /\ handleHeld <=> timeSet
        /\ idsSet <=> (tasks # <<>>)
        /\ (tasks = <<>>) <=> (/\ nextTasksIds = NullIds
                               /\ activeTimerId = NullTimer
                               /\ nextExecutionTime = NullTime)

\* C30 witness: a timer fired for the first of two groups; the three fields
\* were cleared and set again for the task that remains.
C30_Witness ==
    /\ lastOp.op = "fire" /\ lastOp.before = 2 /\ lastOp.ret = 1
    /\ lastOp.cancelled = 1 /\ Len(lastOp.armed) = 1
    /\ nextTasksIds = timeline[1] /\ activeTimerId # NullTimer
    /\ nextExecutionTime = StoredTask(timeline[1][1]).executionTime

\* C27: the first getAgenda() call constructs the Agenda and every call
\* returns that one object: one Agenda is ever constructed, every reference
\* returned is the one Agenda.#agenda holds, and so an operation through any
\* of them acts on the same registry, tracker and timer.
C27_GetAgendaReturnsTheSingleton ==
    /\ made <= 1
    /\ Cardinality(got) <= 1
    /\ got \subseteq {agenda}
    /\ (got = {}) <=> (agenda = NullAgenda)
    /\ (agenda = NullAgenda) <=> (made = 0)
    /\ lastOp.op \in {"addTasks", "removeTask", "executeTaskNow"} => got = {1}
    /\ \A r \in got : getAgenda(Statics).returned = r

\* C27 witness: getAgenda() was called again after a task had been added
\* through the reference an earlier call returned; the task is stored and
\* tracked in the Agenda the new reference names.
C27_Witness ==
    /\ lastCall.op = "getAgenda" /\ lastOp.op = "addTasks" /\ lastOp.flag
    /\ got = {1} /\ agenda = 1 /\ made = 1
    /\ taskCount(tasks) = 1 /\ Armed

\* C28 (as claimed): findTasksByName(text, caseSensitive) on the registry
\* raises nothing in either case mode, also when a stored task has no name,
\* and returns exactly the stored tasks whose name is set and contains the
\* text (both sides lower-cased when the search is not case sensitive).
C28_SearchSkipsUnnamedTasks ==
    \A text \in SearchStrings, caseSensitive \in BOOLEAN :
        LET r == findTasksByName(Store, 1, text, caseSensitive)
            fold(str) == IF caseSensitive THEN str ELSE toLowerCase(str)
            stored == StoredObjs(Store, 1)
        IN  /\ r.raised = ""
            /\ {r.out[i].task : i \in DOMAIN r.out}
                   = {stored[i] : i \in {j \in DOMAIN stored :
                                            /\ stored[j].name # NullName
                                            /\ includes(fold(stored[j].name), fold(text))}}

\* C29 (as claimed): findTasksWithinExecutionTimefram(start, end) and
\* findTasksWithinCreationTimefram(start, end), given two Dates, return the
\* stored tasks whose execution (creation) time t has start <= t <= end.
C29_TimeframeSearchIsInclusive ==
    \A startTime \in Times, endTime \in Times :
        LET e == findTasksWithinExecutionTimefram(tasks, startTime, endTime)
            c == findTasksWithinCreationTimefram(tasks, startTime, endTime)
        IN  /\ e.raised = "" /\ c.raised = ""
            /\ Range(e.out) = {tasks[i] : i \in {j \in DOMAIN tasks :
                                  /\ startTime <= tasks[j].executionTime
                                  /\ tasks[j].executionTime <= endTime}}
            /\ Range(c.out) = {tasks[i] : i \in {j \in DOMAIN tasks :
                                  /\ startTime <= tasks[j].creationTime
                                  /\ tasks[j].creationTime <= endTime}}

\* C31: executeTaskNow(id, false) on a stored id invokes the payload once and
\* leaves the registry, the timeline, the tracked ids, the tracked time and
\* the live timer as they were; the callback of the timer of its group then
\* invokes the task again and deletes it.
C31_ExecuteNowWithoutRemoveKeepsTask ==
    /\ [][(lastOp'.op = "executeTaskNow" /\ ~lastOp'.flag /\ lastOp'.n = 1) =>
             /\ Len(lastOp'.ran) = 1
             /\ lastOp'.ran[1].id = lastOp'.ids[1]
             /\ lastOp'.ran[1].via = "now"
             /\ lastOp'.armed = <<>> /\ lastOp'.cancelled = 0
             /\ lastOp'.ret = lastOp'.before
             /\ UNCHANGED <<tasks, timeline, nextTasksIds, nextExecutionTime,
                            activeTimerId, timers>>]_vars
    /\ []((lastOp.op = "executeTaskNow" /\ ~lastOp.flag /\ lastOp.n = 1
           /\ lastOp.ids[1] \in TrackedIds) =>
             /\ timers # {}
             /\ \A t \in timers :
                   LET b == executeTrackedTasks([Self EXCEPT !.timers = @ \ {t}], t.due)
                   IN  /\ Len(SelectSeq(b.ran, LAMBDA x : x.id = lastOp.ids[1])) = 1
                       /\ lastOp.ids[1] \notin Keys(b.tasks))

\* C31 witness: executeTaskNow(id, false) ran the payload of the one stored,
\* tracked task; it is still stored and tracked and its timer is live.
C31_Witness ==
    /\ lastOp.op = "executeTaskNow" /\ ~lastOp.flag /\ lastOp.n = 1
    /\ Len(lastOp.ran) = 1 /\ lastOp.before = 1 /\ lastOp.ret = 1
    /\ lastOp.ids[1] \in Keys(tasks) /\ lastOp.ids[1] \in TrackedIds
    /\ Cardinality(timers) = 1

C36_FiredAtMostOnce ==
    /\ [][lastOp'.op = "fire" =>
             /\ RanIds(lastOp') \subseteq Keys(tasks)
             /\ RanIds(lastOp') \cap fired = {}
             /\ Cardinality(RanIds(lastOp')) = Len(lastOp'.ran)
             /\ RanIds(lastOp') \cap Keys(tasks') = {}]_vars
    /\ [](fired \cap Keys(tasks) = {})

\* C36 witness: a second fire ran the task of a second group after a first
\* fire had run the task of the first.
C36_Witness ==
    /\ lastOp.op = "fire" /\ lastOp.n = 1 /\ lastOp.before = 1
    /\ Cardinality(fired) = 2 /\ tasks = <<>>

\* C37: addTasks(t) changes no Task object that existed before the call, t
\* included (its id stays what it was, the empty id for a Task never given
\* one); the entry it stores is a new object the caller does not hold, equal
\* to t but for its id, which is not empty and not a key stored before: the
\* same t added twice gives two entries with different ids.
C37_AddTasksCopiesItsArgument ==
    [][lastCall'.op = "addTasks" =>
          \E l \in DOMAIN lists :
              /\ l = lastCall'.list
              /\ Len(objs') = Len(objs) + 1
              /\ \A r \in DOMAIN objs : objs'[r] = objs[r]
              /\ \A h \in held : objs[h.ref].id = objs'[h.ref].id
              /\ \A h \in held' : h.ref # Len(objs')
              /\ Entries(Store, l)' =
                     Append(Entries(Store, l),
                            [key |-> objs'[Len(objs')].id, ref |-> Len(objs')])
              /\ objs'[Len(objs')].id # NullId
              /\ objs'[Len(objs')].id \notin Keys(EntryKeys(Store, l))
              /\ \E h \in held :
                    [objs'[Len(objs')] EXCEPT !.id = objs[h.ref].id] = objs[h.ref]]_vars

\* C37 witness: the one Task the caller created was added to the registry
\* twice; it still has the empty id and the registry holds two other objects
\* under two different ids.
C37_Witness ==
    /\ lastCall.op = "addTasks" /\ lastCall.list = 1
    /\ Len(objs) = 3 /\ Len(Entries(Store, 1)) = 2
    /\ Entries(Store, 1)[1].key # Entries(Store, 1)[2].key
    /\ \E h \in held :
          /\ h.how = "added" /\ objs[h.ref].id = NullId
          /\ \A i \in 1..2 :
                /\ Entries(Store, 1)[i].ref # h.ref
                /\ [StoredObjs(Store, 1)[i] EXCEPT !.id = NullId] = objs[h.ref]

\* C38: in every TaskList the id of each stored Task is the key it is stored
\* under, that id is not empty, and no two entries have the same key: the
\* id generator never returns a key that is in use.
C38_StoredIdIsUniqueKey ==
    /\ \A l \in DOMAIN lists :
          LET entries == Entries(Store, l)
          IN  /\ \A i \in DOMAIN entries :
                    /\ objs[entries[i].ref].id = entries[i].key
                    /\ entries[i].key # NullId
              /\ \A i, j \in DOMAIN entries :
                    entries[i].key = entries[j].key => i = j
              /\ \A newId \in generateUniqueID(EntryKeys(Store, l)) :
                    KeyPos(Store, l, newId) = 0

\* C38 witness: two tasks are stored in the registry under the two ids of
\* the id space, so the generator had one value left for the second.
C38_Witness ==
    /\ lastCall.op = "addTasks" /\ lastCall.list = 1
    /\ Len(Entries(Store, 1)) = NumIds
    /\ generateUniqueID(EntryKeys(Store, 1)) = {}

\* C34 (as claimed): when the payload of a task of the fired group calls
\* removeTask(id) for a task of the group that has not run yet, the payload of
\* that task is not invoked in this fire.
C34_RemovedInFireIsNotInvoked ==
    lastOp.op = "fireRemoves" => lastOp.ids[1] \notin RanIds(lastOp)

\* The last operation stored a task: an addTasks call of the caller or of a
\* payload.
AddedATask == StoredATask \/ lastOp.op = "fireAdds"

\* C35: when the callback of a fire in which a payload called addTasks(t)
\* returns, one timer is live, the new entry is stored and was not invoked,
\* the fired tasks are gone and the tracked ids are the first timeline group;
\* and if only finitely many tasks are ever added, the new task is then
\* invoked by a later fire unless removeTask names it.
C35_AddInFireIsScheduled ==
    /\ [](lastOp.op = "fireAdds" =>
             /\ Len(lastOp.ids) = 1
             /\ lastOp.ids[1] \in Keys(tasks)
             /\ lastOp.ids[1] \notin RanIds(lastOp) /\ lastOp.ids[1] \notin fired
             /\ RanIds(lastOp) \cap Keys(tasks) = {}
             /\ Cardinality(timers) = 1
             /\ \A t \in timers : t.tid = activeTimerId
             /\ TrackedIds = FirstGroupIds)
    /\ (<>[]~AddedATask) =>
          \A id \in Ids :
              (lastOp.op = "fireAdds" /\ lastOp.ids = <<id>>)
                  ~> (id \in fired \/ id \in removed)

\* C35 witness: a payload of a fire added a task that is due later than the
\* fired one; it is the only stored task, tracked, with one live timer.
C35_Witness ==
    /\ lastOp.op = "fireAdds" /\ lastOp.n = 1
    /\ taskCount(tasks) = 1 /\ nextTasksIds = lastOp.ids
    /\ Cardinality(timers) = 1 /\ \A t \in timers : t.due > now

\* C32 (as claimed): no call on a Date object the caller holds (the Date it
\* passed to createTaskWithExecutionTime, or a Date that getCreationTime or
\* getExectutionTime of a Task it holds returned) changes the creation or
\* execution time of a task stored in a TaskList.
C32_StoredTimesAreOwned ==
    [][lastCall'.op = "setTime" =>
          \A l \in DOMAIN lists :
              Timed(Store, StoredObjs(Store, l))' = Timed(Store, StoredObjs(Store, l))]_vars

====
